---- MODULE Spec2Model ----
(***************************************************************************)
(* Model of op-scoreboard.  The user-lookup layer (src/github.go) is a     *)
(* file-backed positive cache and negative cache in front of one HTTP GET  *)
(* to the github API: the cache directory is a map from paths to files,    *)
(* the clock counts days, and every call of githubUserInfo is one action   *)
(* (Spec, SpecStore).  SpecRace interleaves two such calls step by step,   *)
(* SpecSnapshot runs the githubUserInfo of an earlier snapshot, SpecBoard  *)
(* runs createScoreboard and SpecScores runs makePlayerScores.             *)
(***************************************************************************)
EXTENDS Integers, Sequences, FiniteSets, TLC

VARIABLES fs, now, call, fetchedAt, main, proc, lastWrite

vars == <<fs, now, call, fetchedAt, main, proc, lastWrite>>

\* The state of one process that calls githubUserInfo again and again.
cacheVars == <<fs, now, call, fetchedAt>>
\* The state of a run of main, and of two processes that race.
runVars == <<main, proc, lastWrite>>

(***************************************************************************)
(* Bounds of the model.                                                    *)
(***************************************************************************)
\* The clock advances TickDays at a time and stops at MaxTime.
TickDays == 15
MaxTime == 45
\* Longest scripted sequence of network answers offered to one call.
MaxScript == 4
\* Largest number of points of a player handed to createScoreboard.
MaxPoints == 2
\* Longest list of player/challenge pairs handed to makePlayerScores.
MaxChallenges == 3

(***************************************************************************)
(* Program constants.                                                      *)
(***************************************************************************)
maxAgeDays == 30
cacheDir == "/tmp/scoreboard.cache"
StatusNotFound == 404
StatusOKLow == 200
StatusOKHigh == 299

Users == {"bob"}

nil == "nil"

(***************************************************************************)
(* Byte payloads.  A payload is what json.Unmarshal makes of it: a JSON    *)
(* object with a login and a name, or bytes that do not decode.            *)
(***************************************************************************)
EmptyBytes == [kind |-> "empty", login |-> "", name |-> ""]
Garbage == [kind |-> "garbage", login |-> "", name |-> ""]
Json(login, name) == [kind |-> "json", login |-> login, name |-> name]

\* GithubUserResponse, reduced to the field the code tests (Login) and one
\* other field (Name) that tells two profiles of the same user apart.
ZeroResponse == [Login |-> "", Name |-> ""]

\* json.Unmarshal(jdata, &resp)
Unmarshal(jdata) ==
    IF jdata.kind = "json"
    THEN [err |-> nil, resp |-> [Login |-> jdata.login, Name |-> jdata.name]]
    ELSE [err |-> "unmarshal", resp |-> ZeroResponse]

(***************************************************************************)
(* The cache directory.                                                    *)
(***************************************************************************)
\* Paths are strings.  filepath.Join(dir, name), for a name without separators.
Join(dir, name) == dir \o "/" \o name

\* cacheFile with the suffix of the negative cache.
cacheFileNegSuffix(username) == Join(cacheDir, username \o ".negcache")

cacheFile(username) == Join(cacheDir, username \o ".cache")

negativeCacheFile(username) == Join(cacheDir, username \o ".negcache")

\* Usernames whose cache files the storage faults and the checks of the path
\* functions range over: the users of every specification, and names that
\* end like a cache file.
Names == {"bob", "ann", "Bob", "cy", "bob.neg", "bob.cache", "bob.negcache"}

PositivePaths == {cacheFile(u) : u \in Names}
NegativePaths == {negativeCacheFile(u) : u \in Names}

Paths == {cacheFile(u) : u \in Users} \cup {negativeCacheFile(u) : u \in Users}

NoFile == [exists |-> FALSE, data |-> EmptyBytes, mtime |-> 0]
File(data, t) == [exists |-> TRUE, data |-> data, mtime |-> t]

(***************************************************************************)
(* Storage faults.  At most one system call of a githubUserInfo call       *)
(* fails: the first failure ends the call.  op is the failing call, ext    *)
(* the kind of cache file it fails on.                                     *)
(***************************************************************************)
NoFault == [op |-> "none", ext |-> ""]
Faults == {NoFault} \cup
          [op : {"stat", "read", "mkdir", "write"}, ext : {".cache", ".negcache"}]

\* The fault makes system call op fail on cachefile.
Fails(fault, op, cachefile) ==
    /\ fault.op = op
    /\ \/ fault.ext = ".cache" /\ cachefile \in PositivePaths
       \/ fault.ext = ".negcache" /\ cachefile \in NegativePaths

\* cached without the age test: a file is valid for as long as it exists.
cachedNoExpiry(fsys, cachefile, exp, t, fault) ==
    IF Fails(fault, "stat", cachefile)
    THEN [data |-> EmptyBytes, ok |-> FALSE, err |-> "stat"]
    ELSE IF ~fsys[cachefile].exists
    THEN [data |-> EmptyBytes, ok |-> FALSE, err |-> nil]
    ELSE IF Fails(fault, "read", cachefile)
    THEN [data |-> EmptyBytes, ok |-> FALSE, err |-> "read"]
    ELSE [data |-> fsys[cachefile].data, ok |-> TRUE, err |-> nil]

\* cached without the os.IsNotExist test: a missing file is an error.
cachedAbsentIsError(fsys, cachefile, exp, t, fault) ==
    IF Fails(fault, "stat", cachefile)
    THEN [data |-> EmptyBytes, ok |-> FALSE, err |-> "stat"]
    ELSE IF ~fsys[cachefile].exists
    THEN [data |-> EmptyBytes, ok |-> FALSE, err |-> "stat"]
    ELSE IF t > fsys[cachefile].mtime + exp
    THEN [data |-> EmptyBytes, ok |-> FALSE, err |-> nil]
    ELSE IF Fails(fault, "read", cachefile)
    THEN [data |-> EmptyBytes, ok |-> FALSE, err |-> "read"]
    ELSE [data |-> fsys[cachefile].data, ok |-> TRUE, err |-> nil]

\* cached that expires an entry as soon as its age reaches the limit.
cachedExpiresAtLimit(fsys, cachefile, exp, t, fault) ==
    IF Fails(fault, "stat", cachefile)
    THEN [data |-> EmptyBytes, ok |-> FALSE, err |-> "stat"]
    ELSE IF ~fsys[cachefile].exists
    THEN [data |-> EmptyBytes, ok |-> FALSE, err |-> nil]
    ELSE IF t >= fsys[cachefile].mtime + exp
    THEN [data |-> EmptyBytes, ok |-> FALSE, err |-> nil]
    ELSE IF Fails(fault, "read", cachefile)
    THEN [data |-> EmptyBytes, ok |-> FALSE, err |-> "read"]
    ELSE [data |-> fsys[cachefile].data, ok |-> TRUE, err |-> nil]

\* cached(cachefile, exp) at time t
cached(fsys, cachefile, exp, t, fault) ==
    IF Fails(fault, "stat", cachefile)
    THEN [data |-> EmptyBytes, ok |-> FALSE, err |-> "stat"]
    ELSE IF ~fsys[cachefile].exists
    THEN [data |-> EmptyBytes, ok |-> FALSE, err |-> nil]
    ELSE IF t > fsys[cachefile].mtime + exp
    THEN [data |-> EmptyBytes, ok |-> FALSE, err |-> nil]
    ELSE IF Fails(fault, "read", cachefile)
    THEN [data |-> EmptyBytes, ok |-> FALSE, err |-> "read"]
    ELSE [data |-> fsys[cachefile].data, ok |-> TRUE, err |-> nil]

\* cachesave(cachefile, data) at time t.  The fault "mkdir" is a failure that
\* changes nothing (MkdirAll fails, or WriteFile cannot open the file); the
\* fault "write" is a WriteFile that fails after it opened the file with
\* O_TRUNC, which leaves the file empty.
cachesave(fsys, cachefile, data, t, fault) ==
    IF Fails(fault, "mkdir", cachefile)
    THEN [fs |-> fsys, err |-> "mkdir", writes |-> <<>>]
    ELSE IF Fails(fault, "write", cachefile)
    THEN [fs |-> [fsys EXCEPT ![cachefile] = File(EmptyBytes, t)],
          err |-> "write", writes |-> <<cachefile>>]
    ELSE [fs |-> [fsys EXCEPT ![cachefile] = File(data, t)],
          err |-> nil, writes |-> <<cachefile>>]

(***************************************************************************)
(* The network.  A script is the sequence of answers the github API would  *)
(* give to the successive GET requests of one call.                        *)
(***************************************************************************)
NetErr == [kind |-> "neterr", status |-> 0, body |-> EmptyBytes, bodyerr |-> FALSE]
Http(status, body, bodyerr) ==
    [kind |-> "http", status |-> status, body |-> body, bodyerr |-> bodyerr]

Transient(a) ==
    \/ a.kind = "neterr"
    \/ /\ a.kind = "http"
       /\ a.status # StatusNotFound
       /\ (a.status < StatusOKLow \/ a.status > StatusOKHigh)

TransientAnswers == {NetErr, Http(500, Garbage, FALSE)}

NotFoundAnswer == Http(404, Json("", "Not Found"), FALSE)
FoundAnswer(u) == Http(200, Json(u, "v1"), FALSE)

Answers(u) ==
    TransientAnswers \cup
    { NotFoundAnswer,
      FoundAnswer(u),
      Http(299, Json(u, "v2"), FALSE),
      Http(300, Garbage, FALSE),
      Http(200, Json("", "v1"), FALSE),
      Http(200, Garbage, FALSE),
      Http(200, Json(u, "v1"), TRUE) }

\* k copies of a
Repeat(a, k) == [i \in 1..k |-> a]

\* One answer: the github API answers the first GET with it.
Single(u) == { <<a>> : a \in Answers(u) }

\* MaxScript answers: transient failures of one kind, then any answer.
Retried(u) ==
    { Repeat(t, MaxScript - 1) \o <<a>> : t \in TransientAnswers, a \in Answers(u) }

\* The answers a call with a storage fault is offered.
Faulted(u) == { <<NotFoundAnswer>>, <<FoundAnswer(u)>> }

(***************************************************************************)
(* The resolver.  Every operator returns the values the Go function        *)
(* returns, the cache directory it leaves, the number of GET requests it   *)
(* issued and the cache files it wrote.                                    *)
(***************************************************************************)
\* maxAgeDays*24*time.Hour, in the unit of the clock (days).
maxAge == maxAgeDays

\* readFromCache that drops the errors of cached: a failed read is a miss.
readFromCacheIgnoreErr(fsys, username, t, fault) ==
    LET n == cached(fsys, negativeCacheFile(username), maxAge, t, fault)
        p == cached(fsys, cacheFile(username), maxAge, t, fault)
        nreads == <<negativeCacheFile(username)>>
        preads == <<negativeCacheFile(username), cacheFile(username)>>
    IN  IF n.ok
        THEN [jdata |-> EmptyBytes, ok |-> FALSE, err |-> nil, reads |-> nreads]
        ELSE IF ~p.ok
        THEN [jdata |-> EmptyBytes, ok |-> FALSE, err |-> nil, reads |-> preads]
        ELSE [jdata |-> p.data, ok |-> TRUE, err |-> nil, reads |-> preads]

\* readFromCache(username).  reads lists the cache files handed to cached.
readFromCache(fsys, username, t, fault) ==
    LET n == cached(fsys, negativeCacheFile(username), maxAge, t, fault)
        p == cached(fsys, cacheFile(username), maxAge, t, fault)
        nreads == <<negativeCacheFile(username)>>
        preads == <<negativeCacheFile(username), cacheFile(username)>>
    IN  IF n.err # nil
        THEN [jdata |-> EmptyBytes, ok |-> FALSE, err |-> "negative cache read error",
              reads |-> nreads]
        ELSE IF n.ok
        THEN [jdata |-> EmptyBytes, ok |-> FALSE, err |-> nil, reads |-> nreads]
        ELSE IF p.err # nil
        THEN [jdata |-> EmptyBytes, ok |-> FALSE, err |-> "cache read error",
              reads |-> preads]
        ELSE IF ~p.ok
        THEN [jdata |-> EmptyBytes, ok |-> FALSE, err |-> nil, reads |-> preads]
        ELSE [jdata |-> p.data, ok |-> TRUE, err |-> nil, reads |-> preads]

\* readFromGithub with a retry loop: a transient answer is followed by
\* another GET for as long as the script has answers.
RECURSIVE readFromGithubRetry(_, _, _, _, _)
readFromGithubRetry(fsys, username, script, t, fault) ==
    LET r == Head(script)
        base == [jdata |-> EmptyBytes, ok |-> FALSE, fs |-> fsys,
                 requests |-> 1, writes |-> <<>>]
    IN  IF Transient(r) /\ Len(script) > 1
        THEN LET n == readFromGithubRetry(fsys, username, Tail(script), t, fault)
             IN  [n EXCEPT !.requests = n.requests + 1]
        ELSE IF r.kind = "neterr"
        THEN base @@ [err |-> "error retrieving github user"]
        ELSE IF r.status = StatusNotFound
        THEN LET w == cachesave(fsys, negativeCacheFile(username), EmptyBytes, t, fault)
             IN  [jdata |-> EmptyBytes, ok |-> FALSE,
                  err |-> IF w.err # nil THEN "negative cache write error" ELSE nil,
                  fs |-> w.fs, requests |-> 1, writes |-> w.writes]
        ELSE IF r.status < StatusOKLow \/ r.status > StatusOKHigh
        THEN base @@ [err |-> "github returned status"]
        ELSE IF r.bodyerr
        THEN base @@ [err |-> "error reading http body"]
        ELSE [jdata |-> r.body, ok |-> TRUE, err |-> nil, fs |-> fsys,
              requests |-> 1, writes |-> <<>>]

\* readFromGithub that forgets the marker: a 404 returns "not found" without
\* saving the user to the negative cache.
readFromGithubNoMarker(fsys, username, script, t, fault) ==
    LET r == Head(script)
        base == [jdata |-> EmptyBytes, ok |-> FALSE, fs |-> fsys,
                 requests |-> 1, writes |-> <<>>]
    IN  IF r.kind = "neterr"
        THEN base @@ [err |-> "error retrieving github user"]
        ELSE IF r.status = StatusNotFound
        THEN base @@ [err |-> nil]
        ELSE IF r.status < StatusOKLow \/ r.status > StatusOKHigh
        THEN base @@ [err |-> "github returned status"]
        ELSE IF r.bodyerr
        THEN base @@ [err |-> "error reading http body"]
        ELSE [jdata |-> r.body, ok |-> TRUE, err |-> nil, fs |-> fsys,
              requests |-> 1, writes |-> <<>>]

\* readFromGithub that takes a failed GET for "user not found": a transport
\* error or a bad status returns no error.
readFromGithubSwallow(fsys, username, script, t, fault) ==
    LET r == Head(script)
        base == [jdata |-> EmptyBytes, ok |-> FALSE, fs |-> fsys,
                 requests |-> 1, writes |-> <<>>]
    IN  IF r.kind = "neterr"
        THEN base @@ [err |-> nil]
        ELSE IF r.status = StatusNotFound
        THEN LET w == cachesave(fsys, negativeCacheFile(username), EmptyBytes, t, fault)
             IN  [jdata |-> EmptyBytes, ok |-> FALSE,
                  err |-> IF w.err # nil THEN "negative cache write error" ELSE nil,
                  fs |-> w.fs, requests |-> 1, writes |-> w.writes]
        ELSE IF r.status < StatusOKLow \/ r.status > StatusOKHigh
        THEN base @@ [err |-> nil]
        ELSE IF r.bodyerr
        THEN base @@ [err |-> "error reading http body"]
        ELSE [jdata |-> r.body, ok |-> TRUE, err |-> nil, fs |-> fsys,
              requests |-> 1, writes |-> <<>>]

\* readFromGithub that tests `r.StatusCode >= 400` where the code tests for
\* 404: a 500 saves the user to the negative cache.
readFromGithubPoison(fsys, username, script, t, fault) ==
    LET r == Head(script)
        base == [jdata |-> EmptyBytes, ok |-> FALSE, fs |-> fsys,
                 requests |-> 1, writes |-> <<>>]
    IN  IF r.kind = "neterr"
        THEN base @@ [err |-> "error retrieving github user"]
        ELSE IF r.status >= 400
        THEN LET w == cachesave(fsys, negativeCacheFile(username), EmptyBytes, t, fault)
             IN  [jdata |-> EmptyBytes, ok |-> FALSE,
                  err |-> IF w.err # nil THEN "negative cache write error" ELSE nil,
                  fs |-> w.fs, requests |-> 1, writes |-> w.writes]
        ELSE IF r.status < StatusOKLow \/ r.status > StatusOKHigh
        THEN base @@ [err |-> "github returned status"]
        ELSE IF r.bodyerr
        THEN base @@ [err |-> "error reading http body"]
        ELSE [jdata |-> r.body, ok |-> TRUE, err |-> nil, fs |-> fsys,
              requests |-> 1, writes |-> <<>>]

\* readFromGithub(username): one http.Get, answered by the head of the script.
readFromGithub(fsys, username, script, t, fault) ==
    LET r == Head(script)
        base == [jdata |-> EmptyBytes, ok |-> FALSE, fs |-> fsys,
                 requests |-> 1, writes |-> <<>>]
    IN  IF r.kind = "neterr"
        THEN base @@ [err |-> "error retrieving github user"]
        ELSE IF r.status = StatusNotFound
        THEN LET w == cachesave(fsys, negativeCacheFile(username), EmptyBytes, t, fault)
             IN  [jdata |-> EmptyBytes, ok |-> FALSE,
                  err |-> IF w.err # nil THEN "negative cache write error" ELSE nil,
                  fs |-> w.fs, requests |-> 1, writes |-> w.writes]
        ELSE IF r.status < StatusOKLow \/ r.status > StatusOKHigh
        THEN base @@ [err |-> "github returned status"]
        ELSE IF r.bodyerr
        THEN base @@ [err |-> "error reading http body"]
        ELSE [jdata |-> r.body, ok |-> TRUE, err |-> nil, fs |-> fsys,
              requests |-> 1, writes |-> <<>>]

\* githubUserInfo that never saves the fetched payload to the cache.
githubUserInfoNoSave(fsys, username, script, t, fault) ==
    LET c == readFromCache(fsys, username, t, fault)
        g == IF c.err = nil /\ ~c.ok
             THEN readFromGithub(fsys, username, script, t, fault)
             ELSE [jdata |-> c.jdata, ok |-> c.ok, err |-> c.err, fs |-> fsys,
                   requests |-> 0, writes |-> <<>>]
        d == Unmarshal(g.jdata)
        fail(e) == [resp |-> ZeroResponse, found |-> FALSE, err |-> e, fs |-> g.fs,
                    requests |-> g.requests, writes |-> g.writes, fromCache |-> c.ok,
                    reads |-> c.reads]
    IN  IF c.err # nil THEN fail(c.err)
        ELSE IF g.err # nil \/ ~g.ok THEN fail(g.err)
        ELSE IF d.err # nil THEN fail("error decoding github data")
        ELSE IF d.resp.Login = "" THEN fail("got bad json from github")
        ELSE [resp |-> d.resp, found |-> TRUE, err |-> nil, fs |-> g.fs,
              requests |-> g.requests, writes |-> g.writes,
              fromCache |-> c.ok, reads |-> c.reads]

\* githubUserInfo that saves the payload before it decodes and checks it.
githubUserInfoSaveFirst(fsys, username, script, t, fault) ==
    LET c == readFromCache(fsys, username, t, fault)
        g == IF c.err = nil /\ ~c.ok
             THEN readFromGithub(fsys, username, script, t, fault)
             ELSE [jdata |-> c.jdata, ok |-> c.ok, err |-> c.err, fs |-> fsys,
                   requests |-> 0, writes |-> <<>>]
        d == Unmarshal(g.jdata)
        w == cachesave(g.fs, cacheFile(username), g.jdata, t, fault)
        fail(e) == [resp |-> ZeroResponse, found |-> FALSE, err |-> e, fs |-> g.fs,
                    requests |-> g.requests, writes |-> g.writes, fromCache |-> c.ok,
                    reads |-> c.reads]
        failw(e) == [resp |-> ZeroResponse, found |-> FALSE, err |-> e, fs |-> w.fs,
                     requests |-> g.requests, writes |-> g.writes \o w.writes,
                     fromCache |-> c.ok, reads |-> c.reads]
    IN  IF c.err # nil THEN fail(c.err)
        ELSE IF g.err # nil \/ ~g.ok THEN fail(g.err)
        ELSE IF w.err # nil THEN failw("cache write error")
        ELSE IF d.err # nil THEN failw("error decoding github data")
        ELSE IF d.resp.Login = "" THEN failw("got bad json from github")
        ELSE [resp |-> d.resp, found |-> TRUE, err |-> nil, fs |-> w.fs,
              requests |-> g.requests, writes |-> g.writes \o w.writes,
              fromCache |-> c.ok, reads |-> c.reads]

\* githubUserInfo that takes any negative cache file, whatever its age, for
\* "user not found".
githubUserInfoNegExists(fsys, username, script, t, fault) ==
    LET c == readFromCache(fsys, username, t, fault)
        g == IF c.err = nil /\ ~c.ok
             THEN readFromGithub(fsys, username, script, t, fault)
             ELSE [jdata |-> c.jdata, ok |-> c.ok, err |-> c.err, fs |-> fsys,
                   requests |-> 0, writes |-> <<>>]
        d == Unmarshal(g.jdata)
        w == cachesave(g.fs, cacheFile(username), g.jdata, t, fault)
        fail(e) == [resp |-> ZeroResponse, found |-> FALSE, err |-> e, fs |-> g.fs,
                    requests |-> g.requests, writes |-> g.writes, fromCache |-> c.ok,
                    reads |-> c.reads]
    IN  IF fsys[negativeCacheFile(username)].exists
        THEN [resp |-> ZeroResponse, found |-> FALSE, err |-> nil, fs |-> fsys,
              requests |-> 0, writes |-> <<>>, fromCache |-> FALSE,
              reads |-> <<negativeCacheFile(username)>>]
        ELSE IF c.err # nil THEN fail(c.err)
        ELSE IF g.err # nil \/ ~g.ok THEN fail(g.err)
        ELSE IF d.err # nil THEN fail("error decoding github data")
        ELSE IF d.resp.Login = "" THEN fail("got bad json from github")
        ELSE IF w.err # nil
        THEN [resp |-> ZeroResponse, found |-> FALSE, err |-> "cache write error",
              fs |-> w.fs, requests |-> g.requests, writes |-> g.writes \o w.writes,
              fromCache |-> c.ok, reads |-> c.reads]
        ELSE [resp |-> d.resp, found |-> TRUE, err |-> nil, fs |-> w.fs,
              requests |-> g.requests, writes |-> g.writes \o w.writes,
              fromCache |-> c.ok, reads |-> c.reads]

\* githubUserInfo that drops the error of the final cachesave.
githubUserInfoIgnoreSaveErr(fsys, username, script, t, fault) ==
    LET c == readFromCache(fsys, username, t, fault)
        g == IF c.err = nil /\ ~c.ok
             THEN readFromGithub(fsys, username, script, t, fault)
             ELSE [jdata |-> c.jdata, ok |-> c.ok, err |-> c.err, fs |-> fsys,
                   requests |-> 0, writes |-> <<>>]
        d == Unmarshal(g.jdata)
        w == cachesave(g.fs, cacheFile(username), g.jdata, t, fault)
        fail(e) == [resp |-> ZeroResponse, found |-> FALSE, err |-> e, fs |-> g.fs,
                    requests |-> g.requests, writes |-> g.writes, fromCache |-> c.ok,
                    reads |-> c.reads]
    IN  IF c.err # nil THEN fail(c.err)
        ELSE IF g.err # nil \/ ~g.ok THEN fail(g.err)
        ELSE IF d.err # nil THEN fail("error decoding github data")
        ELSE IF d.resp.Login = "" THEN fail("got bad json from github")
        ELSE [resp |-> d.resp, found |-> TRUE, err |-> nil, fs |-> w.fs,
              requests |-> g.requests, writes |-> g.writes \o w.writes,
              fromCache |-> c.ok, reads |-> c.reads]

\* githubUserInfo without the test of resp.Login.
githubUserInfoNoLoginCheck(fsys, username, script, t, fault) ==
    LET c == readFromCache(fsys, username, t, fault)
        g == IF c.err = nil /\ ~c.ok
             THEN readFromGithub(fsys, username, script, t, fault)
             ELSE [jdata |-> c.jdata, ok |-> c.ok, err |-> c.err, fs |-> fsys,
                   requests |-> 0, writes |-> <<>>]
        d == Unmarshal(g.jdata)
        w == cachesave(g.fs, cacheFile(username), g.jdata, t, fault)
        fail(e) == [resp |-> ZeroResponse, found |-> FALSE, err |-> e, fs |-> g.fs,
                    requests |-> g.requests, writes |-> g.writes, fromCache |-> c.ok,
                    reads |-> c.reads]
    IN  IF c.err # nil THEN fail(c.err)
        ELSE IF g.err # nil \/ ~g.ok THEN fail(g.err)
        ELSE IF d.err # nil THEN fail("error decoding github data")
        ELSE IF w.err # nil
        THEN [resp |-> ZeroResponse, found |-> FALSE, err |-> "cache write error",
              fs |-> w.fs, requests |-> g.requests, writes |-> g.writes \o w.writes,
              fromCache |-> c.ok, reads |-> c.reads]
        ELSE [resp |-> d.resp, found |-> TRUE, err |-> nil, fs |-> w.fs,
              requests |-> g.requests, writes |-> g.writes \o w.writes,
              fromCache |-> c.ok, reads |-> c.reads]

\* githubUserInfo(username)
githubUserInfo(fsys, username, script, t, fault) ==
    LET c == readFromCache(fsys, username, t, fault)
        g == IF c.err = nil /\ ~c.ok
             THEN readFromGithub(fsys, username, script, t, fault)
             ELSE [jdata |-> c.jdata, ok |-> c.ok, err |-> c.err, fs |-> fsys,
                   requests |-> 0, writes |-> <<>>]
        d == Unmarshal(g.jdata)
        w == cachesave(g.fs, cacheFile(username), g.jdata, t, fault)
        fail(e) == [resp |-> ZeroResponse, found |-> FALSE, err |-> e, fs |-> g.fs,
                    requests |-> g.requests, writes |-> g.writes, fromCache |-> c.ok,
                    reads |-> c.reads]
    IN  IF c.err # nil THEN fail(c.err)
        ELSE IF g.err # nil \/ ~g.ok THEN fail(g.err)
        ELSE IF d.err # nil THEN fail("error decoding github data")
        ELSE IF d.resp.Login = "" THEN fail("got bad json from github")
        ELSE IF w.err # nil
        THEN [resp |-> ZeroResponse, found |-> FALSE, err |-> "cache write error",
              fs |-> w.fs, requests |-> g.requests, writes |-> g.writes \o w.writes,
              fromCache |-> c.ok, reads |-> c.reads]
        ELSE [resp |-> d.resp, found |-> TRUE, err |-> nil, fs |-> w.fs,
              requests |-> g.requests, writes |-> g.writes \o w.writes,
              fromCache |-> c.ok, reads |-> c.reads]

(***************************************************************************)
(* State machine.                                                          *)
(*   fs         the cache directory                                        *)
(*   now        the clock, in days                                         *)
(*   call       the last call of githubUserInfo: its inputs, the cache     *)
(*              directory and time it started with, and what it returned   *)
(*   fetchedAt  per user, the day of the GET whose body the positive       *)
(*              cache file holds (-1: none)                                *)
(*   main       the run of main: its inputs, its position and the values   *)
(*              of makePlayerScores and createScoreboard (SpecScores,      *)
(*              SpecBoard)                                                 *)
(*   proc       per process, the position and the local variables of a     *)
(*              githubUserInfo call that runs beside another (SpecRace)    *)
(*   lastWrite  the process whose write to the positive cache file came    *)
(*              last (SpecRace)                                            *)
(***************************************************************************)
Procs == {"p1", "p2"}

NoMain == [pc |-> "off"]
NoProc == [p \in Procs |-> [pc |-> "off"]]
NoWrite == "none"

Init ==
    /\ fs = [p \in Paths |-> NoFile]
    /\ now = 0
    /\ call = [done |-> FALSE]
    /\ fetchedAt = [u \in Users |-> -1]
    /\ main = NoMain /\ proc = NoProc /\ lastWrite = NoWrite

\* githubUserInfo(u), called with the answers script and the fault, returns r.
Returns(u, script, fault, r) ==
    /\ fs' = r.fs
    /\ call' = [done |-> TRUE, user |-> u, script |-> script, fault |-> fault,
                at |-> now, pre |-> fs, resp |-> r.resp, found |-> r.found,
                err |-> r.err, requests |-> r.requests, writes |-> r.writes,
                fromCache |-> r.fromCache, reads |-> r.reads]
    /\ fetchedAt' = IF r.requests > 0 /\ r.fs[cacheFile(u)] # fs[cacheFile(u)]
                    THEN [fetchedAt EXCEPT ![u] = now]
                    ELSE fetchedAt
    /\ UNCHANGED now

\* One call githubUserInfo(u), as createScoreboard makes it.
Resolve(u, script, fault) ==
    \E r \in {githubUserInfo(fs, u, script, now, fault)} :
        /\ Returns(u, script, fault, r)
        /\ UNCHANGED runVars

\* Time passes between two calls.
Tick ==
    /\ now + TickDays <= MaxTime
    /\ now' = now + TickDays
    /\ UNCHANGED <<fs, call, fetchedAt>>
    /\ UNCHANGED runVars

Next ==
    \/ \E u \in Users : \E s \in Single(u) : Resolve(u, s, NoFault)
    \/ \E u \in Users : \E s \in Retried(u) : Resolve(u, s, NoFault)
    \/ \E u \in Users : \E s \in Faulted(u) : \E f \in Faults \ {NoFault} :
           Resolve(u, s, f)
    \/ Tick

Spec == Init /\ [][Next]_vars

(***************************************************************************)
(* What the last call found in the cache, read off the directory it        *)
(* started with.                                                           *)
(***************************************************************************)
NegRead(c) == cached(c.pre, negativeCacheFile(c.user), maxAge, c.at, c.fault)
PosRead(c) == cached(c.pre, cacheFile(c.user), maxAge, c.at, c.fault)

\* The negative cache reported a valid entry.
NegHit(c) == NegRead(c).err = nil /\ NegRead(c).ok

\* No valid negative entry, and the positive cache reported a valid entry.
PosHit(c) == NegRead(c).err = nil /\ ~NegRead(c).ok /\ PosRead(c).err = nil /\ PosRead(c).ok

\* Both caches were read without error and neither holds a valid entry.
Miss(c) == NegRead(c).err = nil /\ ~NegRead(c).ok /\ PosRead(c).err = nil /\ ~PosRead(c).ok

\* The file at path p is a valid entry at time t.
ValidAt(fsys, p, t) == fsys[p].exists /\ t <= fsys[p].mtime + maxAge

\* An answer with a non-2xx status other than 404.
BadStatus(a) == a.kind = "http" /\ Transient(a)

\* An answer with a 2xx status and a body that decodes to a profile with a Login.
ValidProfile(a) ==
    /\ a.kind = "http" /\ a.status >= StatusOKLow /\ a.status <= StatusOKHigh
    /\ ~a.bodyerr
    /\ Unmarshal(a.body).err = nil /\ Unmarshal(a.body).resp.Login # ""

(***************************************************************************)
(* Claims.                                                                 *)
(***************************************************************************)

\* C1: a call githubUserInfo(u) that starts while u has a valid negative
\* cache entry issues no HTTP request.
C1_NegativeShortCircuit ==
    call.done /\ NegHit(call) => call.requests = 0

\* C2: a call whose payload came from a valid positive cache entry performs
\* no write to that entry: its content and last-modified time are unchanged.
C2_WriteSuppression ==
    call.done /\ call.fromCache =>
        /\ fs[cacheFile(call.user)] = call.pre[cacheFile(call.user)]
        /\ \A i \in 1..Len(call.writes) : call.writes[i] # cacheFile(call.user)

\* C3: a positive cache entry is not served once more than maxAgeDays have
\* passed since the network fetch that created it.
C3_BoundedStaleness ==
    call.done /\ call.fromCache =>
        call.at <= fetchedAt[call.user] + maxAgeDays

\* C4: a call that starts while u has a valid negative cache entry returns
\* found=false and error=nil, whatever the positive cache holds and whatever
\* the network would answer.
C4_NegativeHitNotFound ==
    call.done /\ NegHit(call) =>
        ~call.found /\ call.err = nil /\ call.resp = ZeroResponse

\* C5: when a GET answers 404 no further GET is issued in that call and,
\* given the marker write succeeds, the call returns found=false with
\* error=nil and leaves a valid negative cache entry for u.
C5_Definitive404 ==
    call.done =>
        \A i \in 1..call.requests :
            (call.script[i].kind = "http" /\ call.script[i].status = StatusNotFound) =>
                /\ i = call.requests
                /\ ~(call.fault.ext = ".negcache" /\ call.fault.op \in {"mkdir", "write"}) =>
                      /\ ~call.found
                      /\ call.err = nil
                      /\ call.resp = ZeroResponse
                      /\ ValidAt(fs, negativeCacheFile(call.user), call.at)
                      /\ fs[negativeCacheFile(call.user)].mtime = call.at

C5_Witness ==
    /\ call.done /\ call.requests = 1 /\ call.script[1] = NotFoundAnswer
    /\ call.fault = NoFault
    /\ ~call.pre[negativeCacheFile(call.user)].exists
    /\ ~call.found /\ call.err = nil
    /\ ValidAt(fs, negativeCacheFile(call.user), call.at)

C9_OneRequestPerMiss ==
    call.done =>
        /\ Miss(call) => call.requests = 1
        /\ (NegHit(call) \/ PosHit(call)) => call.requests = 0

\* C10: two calls for the same username in succession, starting with a valid
\* positive cache entry and no valid negative entry, return identical
\* records with found=true, and neither issues a network request.
C10_Idempotence ==
    [][ (/\ call.done /\ PosHit(call)
         /\ call'.done /\ call' # call
         /\ call'.user = call.user /\ call'.at = call.at
         /\ call'.fault.op \notin {"stat", "read"})
        => /\ call.found /\ call'.found
           /\ call'.resp = call.resp
           /\ call.requests = 0 /\ call'.requests = 0 ]_vars

\* An answer with a 2xx status whose body was read.
BodyRead(a) ==
    /\ a.kind = "http" /\ a.status >= StatusOKLow /\ a.status <= StatusOKHigh
    /\ ~a.bodyerr

\* The call had a payload to decode: from the positive cache, or the body of
\* a 2xx answer.
HasPayload(c) == c.fromCache \/ (c.requests >= 1 /\ BodyRead(c.script[c.requests]))

\* The payload the call decoded.
Payload(c) == IF c.fromCache THEN PosRead(c).data ELSE c.script[c.requests].body

\* The payload does not decode, or decodes to a record with an empty Login.
Invalid(jdata) == Unmarshal(jdata).err # nil \/ Unmarshal(jdata).resp.Login = ""

\* The cache directory the call started with holds no file.
EmptyCache(c) == \A p \in Paths : ~c.pre[p].exists

\* C11: with working storage, a call for u that starts from an empty cache
\* and is answered 2xx with a valid profile returns found=true and leaves a
\* valid positive entry for u holding exactly the fetched payload, and a
\* following call for u within the window returns the same record without a
\* network request.
C11_FetchThenHit ==
    [][ (/\ call.done /\ call.fault = NoFault /\ EmptyCache(call)
         /\ ValidProfile(call.script[1]))
        => /\ call.found /\ call.err = nil /\ call.requests = 1
           /\ call.resp = Unmarshal(call.script[1].body).resp
           /\ fs[cacheFile(call.user)] = File(call.script[1].body, call.at)
           /\ ValidAt(fs, cacheFile(call.user), call.at)
           /\ (/\ call'.done /\ call' # call /\ call'.user = call.user
               /\ call'.fault = NoFault /\ call'.at < call.at + maxAge)
              => /\ call'.found /\ call'.err = nil
                 /\ call'.resp = call.resp
                 /\ call'.requests = 0 ]_vars

C11_Witness ==
    /\ call.done /\ call.fault = NoFault
    /\ call.fromCache /\ call.found /\ call.requests = 0
    /\ fetchedAt[call.user] = call.pre[cacheFile(call.user)].mtime
    /\ call.at = fetchedAt[call.user] + TickDays
    /\ call.resp = Unmarshal(call.pre[cacheFile(call.user)].data).resp

\* C12: a payload (fresh 2xx body or cached) that fails to decode, or that
\* decodes to a record with an empty Login, makes the call return
\* found=false with a non-nil error and write nothing to either cache.
C12_InvalidPayloadIsError ==
    call.done /\ HasPayload(call) /\ Invalid(Payload(call)) =>
        /\ ~call.found
        /\ call.resp = ZeroResponse
        /\ call.err = IF Unmarshal(Payload(call)).err # nil
                      THEN "error decoding github data"
                      ELSE "got bad json from github"
        /\ call.writes = <<>>
        /\ fs = call.pre

C12_Witness ==
    /\ call.done /\ ~call.fromCache /\ call.requests = 1
    /\ BodyRead(call.script[1])
    /\ Unmarshal(call.script[1].body).err = nil
    /\ Unmarshal(call.script[1].body).resp.Login = ""
    /\ call.err = "got bad json from github"

\* The age, at the start of the call, of the file at path p.
Age(c, p) == c.at - c.pre[p].mtime

\* What cached returned to the call for path p.
Read(c, p) == cached(c.pre, p, maxAge, c.at, c.fault)

\* C13: cached on an entry whose age is less than maxAge returns the payload
\* as last written with valid=true and no error; on an entry whose age
\* exceeds maxAge it returns valid=false with no error; the read changes
\* neither the content nor the last-modified time of the entry.
C13_CacheFreshness ==
    call.done /\ call.fault.op \notin {"stat", "read"} =>
        /\ \A i \in 1..Len(call.reads) :
              LET p == call.reads[i]
              IN  /\ (call.pre[p].exists /\ Age(call, p) < maxAge) =>
                        /\ Read(call, p).ok /\ Read(call, p).err = nil
                        /\ Read(call, p).data = call.pre[p].data
                  /\ (call.pre[p].exists /\ Age(call, p) > maxAge) =>
                        /\ ~Read(call, p).ok /\ Read(call, p).err = nil
        /\ (call.pre[cacheFile(call.user)].exists
              /\ Age(call, cacheFile(call.user)) > maxAge) => ~call.fromCache
        /\ call.writes = <<>> => fs = call.pre

C13_Witness ==
    /\ call.done /\ call.fault = NoFault
    /\ call.reads = <<negativeCacheFile(call.user), cacheFile(call.user)>>
    /\ call.pre[negativeCacheFile(call.user)].exists
    /\ Age(call, negativeCacheFile(call.user)) > maxAge
    /\ ~Read(call, negativeCacheFile(call.user)).ok
    /\ call.pre[cacheFile(call.user)].exists
    /\ Age(call, cacheFile(call.user)) = TickDays
    /\ call.fromCache
    /\ Read(call, cacheFile(call.user)).data = call.pre[cacheFile(call.user)].data

\* C14: with working storage, a call for u whose negative cache entry is
\* older than the window does not short-circuit: it consults the positive
\* cache and, on a miss, the network, and a 2xx answer with a valid profile
\* then yields found=true.
C14_NegativeExpiry ==
    (/\ call.done /\ call.fault = NoFault
     /\ call.pre[negativeCacheFile(call.user)].exists
     /\ Age(call, negativeCacheFile(call.user)) > maxAge)
    => /\ call.reads = <<negativeCacheFile(call.user), cacheFile(call.user)>>
       /\ ValidAt(call.pre, cacheFile(call.user), call.at) => call.requests = 0
       /\ ~ValidAt(call.pre, cacheFile(call.user), call.at) =>
             /\ call.requests = 1
             /\ ValidProfile(call.script[1]) =>
                   /\ call.found /\ call.err = nil
                   /\ call.resp = Unmarshal(call.script[1].body).resp

C14_Witness ==
    /\ call.done /\ call.fault = NoFault
    /\ call.pre[negativeCacheFile(call.user)].exists
    /\ Age(call, negativeCacheFile(call.user)) > maxAge
    /\ ~call.pre[cacheFile(call.user)].exists
    /\ call.requests = 1 /\ ValidProfile(call.script[1])
    /\ call.found

\* The call handed path p to cachesave.
Wrote(c, p) == \E i \in 1..Len(c.writes) : c.writes[i] = p

\* C15: a call for u that starts while u has a valid negative cache entry
\* never writes to that entry, and no write lands on a location that holds a
\* valid entry.
C15_NoWriteOnValidEntry ==
    call.done =>
        /\ NegHit(call) =>
              /\ ~Wrote(call, negativeCacheFile(call.user))
              /\ fs[negativeCacheFile(call.user)] = call.pre[negativeCacheFile(call.user)]
        /\ \A p \in Paths : Wrote(call, p) => ~ValidAt(call.pre, p, call.at)

\* C16: a negative cache entry for u is created or rewritten only in a call
\* for u in which the network answered 404; a transport failure, another
\* non-2xx status, a 2xx answer or a decode failure never creates or
\* modifies a negative entry.
C16_NoNegativePoisoning ==
    call.done =>
        \A u \in Users :
            (\/ Wrote(call, negativeCacheFile(u))
             \/ fs[negativeCacheFile(u)] # call.pre[negativeCacheFile(u)])
            => /\ u = call.user
               /\ call.requests >= 1
               /\ call.script[call.requests].kind = "http"
               /\ call.script[call.requests].status = StatusNotFound

C16_Witness ==
    /\ call.done /\ call.fault = NoFault
    /\ call.pre[negativeCacheFile(call.user)].exists
    /\ fs[negativeCacheFile(call.user)].mtime > call.pre[negativeCacheFile(call.user)].mtime
    /\ call.script[1] = NotFoundAnswer

\* C17: a call that ends in an error because the fetch failed (transport
\* error, or non-2xx status other than 404) leaves the positive and negative
\* cache entries of every username as they were before the call.
C17_FailedFetchLeavesCache ==
    call.done =>
        /\ (call.requests >= 1 /\ Transient(call.script[call.requests])) =>
              call.err \in {"error retrieving github user", "github returned status"}
        /\ call.err \in {"error retrieving github user", "github returned status"} =>
              /\ ~call.found
              /\ call.writes = <<>>
              /\ \A p \in Paths : fs[p] = call.pre[p]

C17_Witness ==
    /\ call.done /\ call.err = "github returned status"
    /\ call.pre[cacheFile(call.user)].exists
    /\ call.pre[negativeCacheFile(call.user)].exists
    /\ fs = call.pre

\* The call's cachesave on a file of kind ext fails.
WriteFails(c, ext) == c.fault.ext = ext /\ c.fault.op \in {"mkdir", "write"}

\* C18: if reading the negative cache fails with a storage error the call
\* returns found=false with a non-nil error without reading the positive
\* cache, issuing a request or writing a cache entry; if reading the
\* positive cache fails the call likewise returns an error without a
\* request or a write.
C18_ReadErrorsAbort ==
    call.done =>
        /\ Read(call, negativeCacheFile(call.user)).err # nil =>
              /\ ~call.found /\ call.resp = ZeroResponse
              /\ call.err = "negative cache read error"
              /\ call.reads = <<negativeCacheFile(call.user)>>
              /\ call.requests = 0 /\ call.writes = <<>> /\ fs = call.pre
        /\ (/\ Read(call, negativeCacheFile(call.user)).err = nil
            /\ ~Read(call, negativeCacheFile(call.user)).ok
            /\ Read(call, cacheFile(call.user)).err # nil) =>
              /\ ~call.found /\ call.resp = ZeroResponse
              /\ call.err = "cache read error"
              /\ call.requests = 0 /\ call.writes = <<>> /\ fs = call.pre

C18_Witness ==
    /\ call.done /\ call.fault = [op |-> "read", ext |-> ".cache"]
    /\ ValidAt(call.pre, cacheFile(call.user), call.at)
    /\ call.err = "cache read error"
    /\ call.requests = 0 /\ fs = call.pre

\* C19: if writing the negative marker after a 404 fails, or writing the
\* positive entry after a fresh valid fetch fails, the call returns
\* found=false with a non-nil error.
C19_WriteFailuresSurfaced ==
    call.done /\ call.requests >= 1 =>
        /\ (/\ call.script[call.requests].kind = "http"
            /\ call.script[call.requests].status = StatusNotFound
            /\ WriteFails(call, ".negcache")) =>
              /\ ~call.found /\ call.resp = ZeroResponse
              /\ call.err = "negative cache write error"
        /\ (ValidProfile(call.script[call.requests]) /\ WriteFails(call, ".cache")) =>
              /\ ~call.found /\ call.resp = ZeroResponse
              /\ call.err = "cache write error"

C19_Witness ==
    /\ call.done /\ call.requests = 1
    /\ ValidProfile(call.script[1])
    /\ call.fault = [op |-> "write", ext |-> ".cache"]
    /\ ~call.found /\ call.err = "cache write error"

\* C20: cached on a location with no entry returns valid=false with no
\* error, while any other failure to stat or read the entry returns
\* valid=false with a non-nil error.
C20_AbsenceIsNotFailure ==
    call.done =>
        /\ \A i \in 1..Len(call.reads) :
              LET p == call.reads[i]
              IN  /\ Fails(call.fault, "stat", p) =>
                        ~Read(call, p).ok /\ Read(call, p).err # nil
                  /\ (~Fails(call.fault, "stat", p) /\ ~call.pre[p].exists) =>
                        ~Read(call, p).ok /\ Read(call, p).err = nil
                  /\ (/\ ~Fails(call.fault, "stat", p) /\ call.pre[p].exists
                      /\ Age(call, p) <= maxAge /\ Fails(call.fault, "read", p)) =>
                        ~Read(call, p).ok /\ Read(call, p).err # nil
        /\ (EmptyCache(call) /\ call.fault.op # "stat") =>
              /\ call.err \notin {"negative cache read error", "cache read error"}
              /\ call.requests = 1

C20_Witness ==
    /\ call.done /\ call.fault = [op |-> "stat", ext |-> ".cache"]
    /\ EmptyCache(call)
    /\ call.reads = <<negativeCacheFile(call.user), cacheFile(call.user)>>
    /\ Read(call, negativeCacheFile(call.user)).err = nil
    /\ call.err = "cache read error"

\* The call started with no valid negative entry for its user and with a
\* positive entry inside the window that cannot be read or does not decode
\* to a profile.
CorruptEntry(c) ==
    /\ NegRead(c).err = nil /\ ~NegRead(c).ok
    /\ ~Fails(c.fault, "stat", cacheFile(c.user))
    /\ ValidAt(c.pre, cacheFile(c.user), c.at)
    /\ (Fails(c.fault, "read", cacheFile(c.user)) \/ Invalid(c.pre[cacheFile(c.user)].data))

\* C21 as stated: a call that finds a positive entry inside the window whose
\* content is unreadable or not decodable ignores the entry and falls back
\* to the network instead of failing.
C21_CorruptEntryFallsBack ==
    (call.done /\ CorruptEntry(call)) =>
        /\ call.requests >= 1
        /\ call.err \notin {"cache read error", "error decoding github data",
                            "got bad json from github"}

\* C21 amended: a call that finds a positive entry inside the window whose
\* content is unreadable or not decodable fails: it returns found=false
\* with a read or decoding error, issues no request, and leaves the entry as
\* it was.
C21_CorruptEntryIsError ==
    (call.done /\ CorruptEntry(call)) =>
        /\ ~call.found /\ call.resp = ZeroResponse
        /\ call.err = (IF Fails(call.fault, "read", cacheFile(call.user))
                       THEN "cache read error"
                       ELSE IF Unmarshal(call.pre[cacheFile(call.user)].data).err # nil
                       THEN "error decoding github data"
                       ELSE "got bad json from github")
        /\ call.requests = 0
        /\ fs[cacheFile(call.user)] = call.pre[cacheFile(call.user)]

C21_Witness ==
    /\ call.done /\ call.fault = NoFault
    /\ ValidAt(call.pre, cacheFile(call.user), call.at)
    /\ call.pre[cacheFile(call.user)].data = EmptyBytes
    /\ call.at > call.pre[cacheFile(call.user)].mtime
    /\ call.err = "error decoding github data"
    /\ call.requests = 0

(***************************************************************************)
(* Two processes without locking resolve the same username (SpecRace).     *)
(* Here a cache file holds bytes, and the steps of cachesave are separate: *)
(* ioutil.WriteFile opens the file with O_WRONLY|O_CREATE|O_TRUNC, writes  *)
(* the data at offset 0 and closes it.                                     *)
(***************************************************************************)
RaceUser == "bob"

\* The number of bytes of a payload: it grows with the fields of the profile.
Size(jdata) ==
    IF jdata.kind = "json" THEN Len(jdata.login) + Len(jdata.name)
    ELSE IF jdata.kind = "garbage" THEN 1
    ELSE 0

\* The bytes of a payload: byte i of the serialization of jdata.
Encode(jdata) == [i \in 1..Size(jdata) |-> [of |-> jdata, at |-> i]]

\* The payload that json.Unmarshal sees in the bytes: bytes that are not the
\* whole serialization of one payload do not decode.
Decode(bytes) ==
    IF bytes = <<>> THEN EmptyBytes
    ELSE IF bytes = Encode(bytes[1].of) THEN bytes[1].of
    ELSE Garbage

\* Write(data) at offset 0 of a file that holds old.
Overlay(old, data) == data \o SubSeq(old, Len(data) + 1, Len(old))

\* The github API answers the two processes with the profile as it is at
\* the time of each GET: the profile may have changed in between.
RaceAnswers(u) == {FoundAnswer(u), Http(200, Json(u, "v10"), FALSE)}

RaceNoFile == [exists |-> FALSE, data |-> <<>>, mtime |-> 0]

InitRace ==
    /\ fs = [p \in Paths |-> RaceNoFile]
    /\ now = 0
    /\ call = [done |-> FALSE]
    /\ fetchedAt = [u \in Users |-> -1]
    /\ main = NoMain
    /\ proc = [p \in Procs |-> [pc |-> "readFromCache", jdata |-> <<>>, ok |-> FALSE,
                                found |-> FALSE, err |-> nil]]
    /\ lastWrite = NoWrite

\* jdata, ok, err := readFromCache(username)
RaceReadFromCache(p) ==
    /\ proc[p].pc = "readFromCache"
    /\ \E c \in {readFromCache(fs, RaceUser, now, NoFault)} :
          proc' = [proc EXCEPT ![p] =
                     IF c.err # nil THEN [@ EXCEPT !.pc = "done", !.err = c.err]
                     ELSE IF c.ok THEN [@ EXCEPT !.pc = "Unmarshal", !.jdata = c.jdata,
                                                 !.ok = TRUE]
                     ELSE [@ EXCEPT !.pc = "readFromGithub"]]
    /\ UNCHANGED <<cacheVars, main, lastWrite>>

\* jdata, ok, err = readFromGithub(username), answered 2xx
RaceReadFromGithub(p, a) ==
    /\ proc[p].pc = "readFromGithub"
    /\ proc' = [proc EXCEPT ![p] = [@ EXCEPT !.pc = "Unmarshal", !.jdata = Encode(a.body)]]
    /\ UNCHANGED <<cacheVars, main, lastWrite>>

\* json.Unmarshal(jdata, &resp) and the test of resp.Login
RaceUnmarshal(p) ==
    /\ proc[p].pc = "Unmarshal"
    /\ \E d \in {Unmarshal(Decode(proc[p].jdata))} :
          proc' = [proc EXCEPT ![p] =
                     IF d.err # nil
                     THEN [@ EXCEPT !.pc = "done", !.err = "error decoding github data"]
                     ELSE IF d.resp.Login = ""
                     THEN [@ EXCEPT !.pc = "done", !.err = "got bad json from github"]
                     ELSE [@ EXCEPT !.pc = "MkdirAll"]]
    /\ UNCHANGED <<cacheVars, main, lastWrite>>

\* cachesave: os.MkdirAll(dir, 0777)
RaceMkdirAll(p) ==
    /\ proc[p].pc = "MkdirAll"
    /\ proc' = [proc EXCEPT ![p] = [@ EXCEPT !.pc = "OpenFile"]]
    /\ UNCHANGED <<cacheVars, main, lastWrite>>

\* cachesave: ioutil.WriteFile opens the file and truncates it
RaceOpenFile(p) ==
    /\ proc[p].pc = "OpenFile"
    /\ fs' = [fs EXCEPT ![cacheFile(RaceUser)] = File(<<>>, now)]
    /\ proc' = [proc EXCEPT ![p] = [@ EXCEPT !.pc = "Write"]]
    /\ UNCHANGED <<now, call, fetchedAt, main, lastWrite>>

\* cachesave: ioutil.WriteFile writes the data and closes the file;
\* githubUserInfo returns resp, true, nil
RaceWrite(p) ==
    /\ proc[p].pc = "Write"
    /\ fs' = [fs EXCEPT ![cacheFile(RaceUser)] =
                 File(Overlay(fs[cacheFile(RaceUser)].data, proc[p].jdata), now)]
    /\ proc' = [proc EXCEPT ![p] = [@ EXCEPT !.pc = "done", !.found = TRUE]]
    /\ lastWrite' = p
    /\ UNCHANGED <<now, call, fetchedAt, main>>

NextRace ==
    \/ \E p \in Procs : RaceReadFromCache(p)
    \/ \E p \in Procs : \E a \in RaceAnswers(RaceUser) : RaceReadFromGithub(p, a)
    \/ \E p \in Procs : RaceUnmarshal(p)
    \/ \E p \in Procs : RaceMkdirAll(p)
    \/ \E p \in Procs : RaceOpenFile(p)
    \/ \E p \in Procs : RaceWrite(p)

SpecRace == InitRace /\ [][NextRace]_vars

\* C22: when two processes resolve the same uncached username concurrently
\* and both have finished, the positive entry holds the complete payload of
\* the process that wrote last, not a mixture of the two payloads.
C22_LastWriterWins ==
    ((\A p \in Procs : proc[p].pc = "done") /\ lastWrite # NoWrite) =>
        fs[cacheFile(RaceUser)].data = proc[lastWrite].jdata

(***************************************************************************)
(* One process resolves several usernames, among them one that ends like  *)
(* a cache file (SpecStore).                                               *)
(***************************************************************************)
StoreUsers == {"bob", "bob.neg"}

StorePaths == {cacheFile(u) : u \in StoreUsers} \cup {negativeCacheFile(u) : u \in StoreUsers}

\* The github API knows the user or answers 404.
StoreScripts(u) == { <<NotFoundAnswer>>, <<FoundAnswer(u)>> }

InitStore ==
    /\ fs = [p \in StorePaths |-> NoFile]
    /\ now = 0
    /\ call = [done |-> FALSE]
    /\ fetchedAt = [u \in StoreUsers |-> -1]
    /\ main = NoMain /\ proc = NoProc /\ lastWrite = NoWrite

NextStore ==
    \/ \E u \in StoreUsers : \E s \in StoreScripts(u) : Resolve(u, s, NoFault)
    \/ Tick

SpecStore == InitStore /\ [][NextStore]_vars

\* C23: for all usernames u and v the positive location cacheFile(u)
\* differs from the negative location negativeCacheFile(v), and a call that
\* writes a positive entry leaves every negative entry as it was (not
\* created, not overwritten, not re-stamped), and the other way round.
C23_NamespaceSeparation ==
    /\ \A u \in Names : \A v \in Names : cacheFile(u) # negativeCacheFile(v)
    /\ call.done =>
          /\ call.writes = <<cacheFile(call.user)>> =>
                \A v \in StoreUsers :
                    fs[negativeCacheFile(v)] = call.pre[negativeCacheFile(v)]
          /\ call.writes = <<negativeCacheFile(call.user)>> =>
                \A v \in StoreUsers : fs[cacheFile(v)] = call.pre[cacheFile(v)]

C23_Witness ==
    /\ call.done /\ call.user = "bob"
    /\ call.writes = <<cacheFile("bob")>>
    /\ fs[cacheFile("bob")] # call.pre[cacheFile("bob")]
    /\ call.pre[negativeCacheFile("bob")].exists
    /\ call.pre[negativeCacheFile("bob.neg")].exists
    /\ call.pre[cacheFile("bob.neg")].exists

\* C24: within one call the negative check comes before any request, a
\* payload served from the cache excludes a request, and the positive cache
\* file is handed to cachesave last and only with a payload that decoded to
\* a record with a non-empty Login; a cachesave that succeeds leaves exactly
\* that payload.  Hence in every reachable state a positive entry that holds
\* anything holds a payload that decodes to a record with a non-empty Login
\* (a WriteFile that fails after truncating leaves an entry that holds
\* nothing).
C24_WriteOnlyAfterValidation ==
    /\ call.done =>
          /\ call.requests >= 1 =>
                Len(call.reads) >= 1 /\ call.reads[1] = negativeCacheFile(call.user)
          /\ call.fromCache =>
                /\ call.requests = 0
                /\ call.reads = <<negativeCacheFile(call.user), cacheFile(call.user)>>
          /\ Wrote(call, cacheFile(call.user)) =>
                /\ HasPayload(call) /\ ~Invalid(Payload(call))
                /\ call.writes[Len(call.writes)] = cacheFile(call.user)
                /\ call.err = nil =>
                      fs[cacheFile(call.user)] = File(Payload(call), call.at)
    /\ \A u \in Users :
          (fs[cacheFile(u)].exists /\ fs[cacheFile(u)].data # EmptyBytes) =>
              ~Invalid(fs[cacheFile(u)].data)

C24_Witness ==
    /\ call.done /\ call.found /\ ~call.fromCache
    /\ call.requests = 1 /\ call.script[1].status = StatusOKHigh
    /\ call.pre[cacheFile(call.user)].exists
    /\ call.pre[cacheFile(call.user)].data = EmptyBytes
    /\ fs[cacheFile(call.user)] = File(call.script[1].body, call.at)

(***************************************************************************)
(* createScoreboard (SpecBoard).  main holds the scores map it was given,  *)
(* the order in which range visits the keys of the map, the position of    *)
(* the loop, the scoreboard built so far, what githubUserInfo returned for *)
(* each username visited, and the values returned.                        *)
(***************************************************************************)
BoardUsers == {"ann", "Bob", "cy"}

BoardPaths == {cacheFile(u) : u \in BoardUsers} \cup {negativeCacheFile(u) : u \in BoardUsers}

\* playerScore values; createScoreboard copies Completed and never reads it.
PlayerScores == {[Points |-> n, Completed |-> <<>>] : n \in 0..MaxPoints}

\* map[string]playerScore
ScoreMaps == UNION {[U -> PlayerScores] : U \in SUBSET BoardUsers}

\* The orders in which range may visit the keys of a map.
Orders(S) ==
    {o \in [1..Cardinality(S) -> S] : \A i, j \in 1..Cardinality(S) : i # j => o[i] # o[j]}

\* The github API knows the user, answers 404, or answers 500.
BoardScripts(u) == { <<FoundAnswer(u)>>, <<NotFoundAnswer>>, <<Http(500, Garbage, FALSE)>> }

\* strings.ToLower
ToLower(str) == IF str = "Bob" THEN "bob" ELSE str

\* The lower-case usernames in the order of <.
Alphabetical == <<"ann", "bob", "cy">>

\* a < b on strings
StringLess(a, b) ==
    \E i, j \in 1..Len(Alphabetical) : Alphabetical[i] = a /\ Alphabetical[j] = b /\ i < j

\* The less function handed to sort.Slice.
less(a, b) ==
    IF a.Score.Points = b.Score.Points
    THEN StringLess(ToLower(a.GithubUser), ToLower(b.GithubUser))
    ELSE a.Score.Points > b.Score.Points

\* sort.Slice(scoreboard, less): some arrangement of the slice that less
\* does not contradict.
SortSlice(scoreboard) ==
    LET n == Len(scoreboard)
        arranged(o) == [i \in 1..n |-> scoreboard[o[i]]]
    IN  arranged(CHOOSE o \in Orders(1..n) :
                    \A i, j \in 1..n : i < j => ~less(arranged(o)[j], arranged(o)[i]))

\* scoreboardEntry{GithubUser: u, Score: s, Completed: s.Completed, GithubInfo: githubInfo}
Entry(u, s, githubInfo) ==
    [Rank |-> 0, GithubUser |-> u, Score |-> s, Completed |-> s.Completed,
     GithubInfo |-> githubInfo, FirstInGroup |-> FALSE, LastInGroup |-> FALSE]

\* The loop that adds rank and group indicators, from index k on (the Go
\* loop counts from 0, the sequence from 1).
RECURSIVE Scan(_, _, _, _)
Scan(scoreboard, k, rank, oldpoints) ==
    IF k > Len(scoreboard) THEN scoreboard
    ELSE LET points == scoreboard[k].Score.Points
             newrank == IF points # oldpoints THEN rank + 1 ELSE rank
             first == IF points # oldpoints
                      THEN [scoreboard EXCEPT ![k].FirstInGroup = TRUE]
                      ELSE scoreboard
             last == IF points # oldpoints /\ k # 1
                     THEN [first EXCEPT ![k - 1].LastInGroup = TRUE]
                     ELSE first
         IN  Scan([last EXCEPT ![k].Rank = newrank], k + 1, newrank, points)

\* createScoreboard from the sort to the return.
addRanks(scoreboard) ==
    LET scanned == Scan(SortSlice(scoreboard), 1, 0, 0)
    IN  IF Len(scanned) # 0
        THEN [scanned EXCEPT ![Len(scanned)].LastInGroup = TRUE]
        ELSE scanned

\* The body of the range loop that swallows the error of githubUserInfo.
lookupStepSkipErrors(m, u, r) ==
    IF r.err # nil \/ ~r.found THEN [m EXCEPT !.i = @ + 1]
    ELSE [m EXCEPT !.scoreboard = Append(@, Entry(u, m.scores[u], r.resp)), !.i = @ + 1]

\* The body of the range loop for username u, githubUserInfo having
\* returned r.
lookupStep(m, u, r) ==
    IF r.err # nil THEN [m EXCEPT !.pc = "done", !.ret = <<>>, !.err = r.err]
    ELSE IF ~r.found THEN [m EXCEPT !.i = @ + 1]
    ELSE [m EXCEPT !.scoreboard = Append(@, Entry(u, m.scores[u], r.resp)), !.i = @ + 1]

InitBoard ==
    /\ fs = [p \in BoardPaths |-> NoFile]
    /\ now = 0
    /\ call = [done |-> FALSE]
    /\ fetchedAt = [u \in BoardUsers |-> -1]
    /\ \E scores \in ScoreMaps : \E order \in Orders(DOMAIN scores) :
          main = [pc |-> "range", scores |-> scores, order |-> order, i |-> 1,
                  scoreboard |-> <<>>, seen |-> <<>>, ret |-> <<>>, err |-> nil]
    /\ proc = NoProc /\ lastWrite = NoWrite

\* One turn of the range loop: it visits username u.
BoardLookup(u, script) ==
    /\ main.pc = "range" /\ main.i <= Len(main.order)
    /\ main.order[main.i] = u
    /\ \E r \in {githubUserInfo(fs, u, script, now, NoFault)} :
          /\ Returns(u, script, NoFault, r)
          /\ main' = [lookupStep(main, u, r) EXCEPT
                         !.seen = Append(@, [user |-> u, found |-> r.found,
                                             err |-> r.err])]
    /\ UNCHANGED <<proc, lastWrite>>

\* The range loop is over: sort, add ranks, return.
BoardRank ==
    /\ main.pc = "range" /\ main.i > Len(main.order)
    /\ main' = [main EXCEPT !.pc = "done", !.ret = addRanks(main.scoreboard), !.err = nil]
    /\ UNCHANGED <<cacheVars, proc, lastWrite>>

NextBoard ==
    \/ \E u \in BoardUsers : \E script \in BoardScripts(u) : BoardLookup(u, script)
    \/ BoardRank

SpecBoard == InitBoard /\ [][NextBoard]_vars

\* The usernames of a scoreboard.
BoardNames(scoreboard) == {scoreboard[k].GithubUser : k \in 1..Len(scoreboard)}

\* The usernames visited for which githubUserInfo returned found=true.
FoundNames(seen) == {seen[i].user : i \in {j \in 1..Len(seen) : seen[j].found}}

\* C25: createScoreboard leaves out every username for which githubUserInfo
\* returns found=false with no error and still visits the remaining
\* usernames; on the first call that returns an error it stops and returns
\* that error with no scoreboard.
C25_CallerHandling ==
    main.pc = "done" =>
        /\ \A i \in 1..Len(main.seen) : main.seen[i].user = main.order[i]
        /\ \A i \in 1..(Len(main.seen) - 1) : main.seen[i].err = nil
        /\ IF Len(main.seen) >= 1 /\ main.seen[Len(main.seen)].err # nil
           THEN /\ main.err = main.seen[Len(main.seen)].err
                /\ main.ret = <<>>
           ELSE /\ Len(main.seen) = Len(main.order)
                /\ main.err = nil
                /\ BoardNames(main.ret) = FoundNames(main.seen)
                /\ Len(main.ret) = Cardinality(FoundNames(main.seen))

C25_Witness ==
    /\ main.pc = "done" /\ main.err = nil
    /\ Len(main.seen) = 3
    /\ ~main.seen[1].found /\ main.seen[2].found /\ ~main.seen[3].found
    /\ BoardNames(main.ret) = {main.seen[2].user}

\* C26: in the scoreboard createScoreboard returns, the first entry has
\* Rank 1, two adjacent entries have the same Rank exactly when they have
\* the same points, and Rank grows by exactly 1 at each change of points.
C26_DenseRanks ==
    (main.pc = "done" /\ main.err = nil /\ Len(main.ret) >= 1) =>
        /\ main.ret[1].Rank = 1
        /\ \A k \in 2..Len(main.ret) :
              IF main.ret[k].Score.Points = main.ret[k - 1].Score.Points
              THEN main.ret[k].Rank = main.ret[k - 1].Rank
              ELSE main.ret[k].Rank = main.ret[k - 1].Rank + 1

\* C27: in the scoreboard createScoreboard returns, FirstInGroup is true for
\* entry k exactly when k is the first entry or its points differ from those
\* of entry k-1, and LastInGroup is true for entry k exactly when k is the
\* last entry or its points differ from those of entry k+1.
C27_GroupFlags ==
    (main.pc = "done" /\ main.err = nil) =>
        \A k \in 1..Len(main.ret) :
            /\ main.ret[k].FirstInGroup <=>
                  (k = 1 \/ main.ret[k].Score.Points # main.ret[k - 1].Score.Points)
            /\ main.ret[k].LastInGroup <=>
                  (k = Len(main.ret)
                      \/ main.ret[k].Score.Points # main.ret[k + 1].Score.Points)

(***************************************************************************)
(* makePlayerScores (SpecScores).  main holds the arguments of the call    *)
(* and the values returned.                                                *)
(***************************************************************************)
ScoreUsers == {"ann", "bob"}
ChallengeNames == {"1", "2"}

\* playerChallenge
PlayerChallenges == [username : ScoreUsers, challenge : ChallengeNames]

\* []playerChallenge
ChallengeLists == UNION {[1..n -> PlayerChallenges] : n \in 0..MaxChallenges}

\* config.IgnoreUsers
IgnoreLists == {<<>>, <<"bob">>}

\* config.Points: every challenge has points, or challenge "2" has none.
PointsConfigs == {("1" :> [Value |-> 1]) @@ ("2" :> [Value |-> 2]),
                  ("1" :> [Value |-> 1])}

\* map[string]playerScore{}, and the nil map returned with an error
EmptyScores == <<>>

\* inSlice(sl, str)
inSlice(sl, str) == \E i \in 1..Len(sl) : sl[i] = str

\* alreadyCompleted(cc, name)
alreadyCompleted(cc, name) == \E i \in 1..Len(cc) : cc[i].Name = name

\* calcScores(challenge, points)
calcScores(challenge, points) ==
    IF challenge.challenge \notin DOMAIN points
    THEN [pts |-> 0, err |-> "missing points configuration"]
    ELSE [pts |-> points[challenge.challenge].Value, err |-> nil]

\* The body of the loop of makePlayerScores with calcScores before the
\* test of the ignore list.
scoreStepCalcFirst(scores, c, ignore, pointsConfig) ==
    LET r == calcScores(c, pointsConfig)
        s == IF c.username \in DOMAIN scores THEN scores[c.username]
             ELSE [Points |-> 0, Completed |-> <<>>]
        completed == IF ~alreadyCompleted(s.Completed, c.challenge)
                     THEN Append(s.Completed, [Name |-> c.challenge, Points |-> r.pts])
                     ELSE s.Completed
    IN  IF r.err # nil THEN [scores |-> EmptyScores, err |-> r.err]
        ELSE IF inSlice(ignore, c.username) THEN [scores |-> scores, err |-> nil]
        ELSE [scores |-> (c.username :> [Points |-> s.Points + r.pts,
                                          Completed |-> completed]) @@ scores,
              err |-> nil]

\* The body of the loop of makePlayerScores for the pair c.
scoreStep(scores, c, ignore, pointsConfig) ==
    LET r == calcScores(c, pointsConfig)
        s == IF c.username \in DOMAIN scores THEN scores[c.username]
             ELSE [Points |-> 0, Completed |-> <<>>]
        completed == IF ~alreadyCompleted(s.Completed, c.challenge)
                     THEN Append(s.Completed, [Name |-> c.challenge, Points |-> r.pts])
                     ELSE s.Completed
    IN  IF inSlice(ignore, c.username) THEN [scores |-> scores, err |-> nil]
        ELSE IF r.err # nil THEN [scores |-> EmptyScores, err |-> r.err]
        ELSE [scores |-> (c.username :> [Points |-> s.Points + r.pts,
                                          Completed |-> completed]) @@ scores,
              err |-> nil]

\* The loop of makePlayerScores from pair k on.
RECURSIVE scoreLoop(_, _, _, _, _)
scoreLoop(scores, challenges, k, ignore, pointsConfig) ==
    IF k > Len(challenges) THEN [scores |-> scores, err |-> nil]
    ELSE LET r == scoreStep(scores, challenges[k], ignore, pointsConfig)
         IN  IF r.err # nil THEN r
             ELSE scoreLoop(r.scores, challenges, k + 1, ignore, pointsConfig)

\* makePlayerScores(challenges, ignore, pointsConfig)
makePlayerScores(challenges, ignore, pointsConfig) ==
    scoreLoop(EmptyScores, challenges, 1, ignore, pointsConfig)

InitScores ==
    /\ fs = [p \in Paths |-> NoFile]
    /\ now = 0
    /\ call = [done |-> FALSE]
    /\ fetchedAt = [u \in Users |-> -1]
    /\ \E challenges \in ChallengeLists : \E ignore \in IgnoreLists :
       \E pointsConfig \in PointsConfigs :
          main = [pc |-> "makePlayerScores", challenges |-> challenges,
                  ignore |-> ignore, pointsConfig |-> pointsConfig,
                  scores |-> EmptyScores, err |-> nil]
    /\ proc = NoProc /\ lastWrite = NoWrite

\* scores, err := makePlayerScores(challenges, config.IgnoreUsers, config.Points)
MakePlayerScores ==
    /\ main.pc = "makePlayerScores"
    /\ \E r \in {makePlayerScores(main.challenges, main.ignore, main.pointsConfig)} :
          main' = [main EXCEPT !.pc = "scored", !.scores = r.scores, !.err = r.err]
    /\ UNCHANGED <<cacheVars, proc, lastWrite>>

NextScores == MakePlayerScores

SpecScores == InitScores /\ [][NextScores]_vars

\* The pairs of the list whose user is not on the ignore list.
Counted(m) ==
    {k \in 1..Len(m.challenges) : ~inSlice(m.ignore, m.challenges[k].username)}

\* C28: no username on the ignore list is a key of the map returned by
\* makePlayerScores, and a pair of an ignored user causes no missing-points
\* error: when every pair of a user that is not ignored has points, the call
\* returns no error and the keys are the users of those pairs.
C28_IgnoredNeverScore ==
    main.pc = "scored" =>
        /\ \A i \in 1..Len(main.ignore) : main.ignore[i] \notin DOMAIN main.scores
        /\ (\A k \in Counted(main) :
               main.challenges[k].challenge \in DOMAIN main.pointsConfig) =>
              /\ main.err = nil
              /\ DOMAIN main.scores = {main.challenges[k].username : k \in Counted(main)}

C28_Witness ==
    /\ main.pc = "scored" /\ main.err = nil
    /\ DOMAIN main.scores = {"ann"}
    /\ \E k \in 1..Len(main.challenges) :
          /\ inSlice(main.ignore, main.challenges[k].username)
          /\ main.challenges[k].challenge \notin DOMAIN main.pointsConfig

(***************************************************************************)
(* The snapshot of github.go that introduces the negative cache            *)
(* (src/unnamed/part_001), under SpecSnapshot.  Its cached, cachesave,     *)
(* cacheFile and negativeCacheFile are those of src/github.go; its         *)
(* githubUserInfo does everything inline.                                  *)
(***************************************************************************)
\* dir, _ := filepath.Split(cachefile): a cache file is in the cache
\* directory, a bare username has no directory.
SplitDir(cachefile) ==
    IF cachefile \in PositivePaths \cup NegativePaths THEN cacheDir \o "/" ELSE ""

\* cachesave(cachefile, data) of the snapshot.  os.MkdirAll("") fails: the
\* empty path is no directory and cannot be made.
cachesavePart001(fsys, cachefile, data, t, fault) ==
    IF SplitDir(cachefile) = ""
    THEN [fs |-> fsys, err |-> "mkdir", writes |-> <<>>]
    ELSE cachesave(fsys, cachefile, data, t, fault)

\* githubUserInfo(username) of the snapshot.  The request and the handling
\* of its answer (lines 77-95) are those of readFromGithub.
githubUserInfoPart001(fsys, username, script, t, fault) ==
    LET n == cached(fsys, negativeCacheFile(username), maxAge, t, fault)
        p == cached(fsys, cacheFile(username), maxAge, t, fault)
        nreads == <<negativeCacheFile(username)>>
        preads == <<negativeCacheFile(username), cacheFile(username)>>
        g == IF ~p.ok
             THEN readFromGithub(fsys, username, script, t, fault)
             ELSE [jdata |-> p.data, ok |-> TRUE, err |-> nil, fs |-> fsys,
                   requests |-> 0, writes |-> <<>>]
        d == Unmarshal(g.jdata)
        w == IF ~p.ok
             THEN cachesavePart001(g.fs, username, g.jdata, t, fault)
             ELSE [fs |-> g.fs, err |-> nil, writes |-> <<>>]
        early(e, reads) ==
             [resp |-> ZeroResponse, found |-> FALSE, err |-> e, fs |-> fsys,
              requests |-> 0, writes |-> <<>>, fromCache |-> FALSE, reads |-> reads]
        fail(e) ==
             [resp |-> ZeroResponse, found |-> FALSE, err |-> e, fs |-> g.fs,
              requests |-> g.requests, writes |-> g.writes, fromCache |-> p.ok,
              reads |-> preads]
    IN  IF n.err # nil THEN early("negative cache read error", nreads)
        ELSE IF n.ok THEN early(nil, nreads)
        ELSE IF p.err # nil THEN early("cache read error", preads)
        ELSE IF g.err # nil \/ ~g.ok THEN fail(g.err)
        ELSE IF d.err # nil THEN fail("error decoding github data")
        ELSE IF w.err # nil
        THEN [resp |-> ZeroResponse, found |-> FALSE, err |-> "cache write error",
              fs |-> w.fs, requests |-> g.requests, writes |-> g.writes \o w.writes,
              fromCache |-> p.ok, reads |-> preads]
        ELSE [resp |-> d.resp, found |-> TRUE, err |-> nil, fs |-> w.fs,
              requests |-> g.requests, writes |-> g.writes \o w.writes,
              fromCache |-> p.ok, reads |-> preads]

\* One call githubUserInfo(u) of the snapshot.
ResolvePart001(u, script, fault) ==
    \E r \in {githubUserInfoPart001(fs, u, script, now, fault)} :
        /\ Returns(u, script, fault, r)
        /\ UNCHANGED runVars

NextSnapshot ==
    \/ \E u \in Users : \E s \in Single(u) : ResolvePart001(u, s, NoFault)
    \/ \E u \in Users : \E s \in Faulted(u) : \E f \in Faults \ {NoFault} :
           ResolvePart001(u, s, f)
    \/ Tick

SpecSnapshot == Init /\ [][NextSnapshot]_vars

\* C29: in the snapshot, a call that misses both caches and fetches a
\* profile stores it at the location the positive-cache read consults: it
\* returns found=true and leaves a valid entry at cacheFile(username) that
\* holds the fetched payload, so that the next call within the window is a
\* cache hit.
C29_SnapshotWritesWhereItReads ==
    (/\ call.done /\ call.fault = NoFault /\ Miss(call)
     /\ call.requests = 1 /\ ValidProfile(call.script[1])) =>
        /\ call.found /\ call.err = nil
        /\ ValidAt(fs, cacheFile(call.user), call.at)
        /\ fs[cacheFile(call.user)].data = call.script[1].body

\* C30: after any sequence of calls by a single process, no username has a
\* valid (unexpired) negative cache entry and a valid (unexpired) positive
\* cache entry at the same time.
C30_NotAbsentAndPresent ==
    \A u \in Users :
        ~(ValidAt(fs, negativeCacheFile(u), now) /\ ValidAt(fs, cacheFile(u), now))

\* C31: every return of githubUserInfo is Found (found=true, no error, a
\* record with a non-empty Login), NotFound (found=false, no error, the zero
\* record) or Error (found=false, an error, the zero record).
C31_ThreeStateResult ==
    call.done =>
        \/ call.found /\ call.err = nil /\ call.resp.Login # ""
        \/ ~call.found /\ call.err = nil /\ call.resp = ZeroResponse
        \/ ~call.found /\ call.err # nil /\ call.resp = ZeroResponse

C31_Witness ==
    /\ call.done /\ call.requests = 1
    /\ call.script[1] = Http(StatusOKLow, Json("", "v1"), FALSE)
    /\ ~call.found /\ call.err # nil /\ call.resp = ZeroResponse

\* C32: cached treats an entry whose age equals maxAge exactly as valid and
\* returns its payload; only an entry strictly older than maxAge is reported
\* invalid.  A call that finds its positive entry at that age is served from
\* the cache.
C32_StrictExpiryBoundary ==
    call.done =>
        /\ \A i \in 1..Len(call.reads) :
              LET p == call.reads[i]
              IN  (/\ call.pre[p].exists
                   /\ ~Fails(call.fault, "stat", p) /\ ~Fails(call.fault, "read", p)) =>
                      /\ Age(call, p) = maxAge =>
                            /\ Read(call, p).ok /\ Read(call, p).err = nil
                            /\ Read(call, p).data = call.pre[p].data
                      /\ Age(call, p) > maxAge =>
                            ~Read(call, p).ok /\ Read(call, p).err = nil
                      /\ Read(call, p).ok <=> Age(call, p) <= maxAge
        /\ (/\ call.fault = NoFault
            /\ ~call.pre[negativeCacheFile(call.user)].exists
            /\ call.pre[cacheFile(call.user)].exists
            /\ Age(call, cacheFile(call.user)) = maxAge) =>
              call.fromCache /\ call.requests = 0

C32_Witness ==
    /\ call.done /\ call.fault = NoFault
    /\ ~call.pre[negativeCacheFile(call.user)].exists
    /\ call.pre[cacheFile(call.user)].exists
    /\ Age(call, cacheFile(call.user)) = maxAge
    /\ call.found /\ call.fromCache /\ call.requests = 0

\* The sum of the Points of a slice of CompletedChallenge.
RECURSIVE SumPoints(_)
SumPoints(cc) == IF cc = <<>> THEN 0 ELSE Head(cc).Points + SumPoints(Tail(cc))

\* C33: for every player in the map returned by makePlayerScores, Points
\* equals the sum of the Points of the player's Completed challenges, also
\* when the same (username, challenge) pair occurs more than once.
C33_TotalIsSumOfParts ==
    (main.pc = "scored" /\ main.err = nil) =>
        \A u \in DOMAIN main.scores :
            main.scores[u].Points = SumPoints(main.scores[u].Completed)

====
